---- MODULE Spec2Model ----
(***************************************************************************)
(* A model of truth.py: the analysis engine analyze_number and the pure    *)
(* functions it calls.                                                      *)
(*                                                                          *)
(* Representation.  A Python int is unbounded; it is modelled as the pair  *)
(* <<hi, lo>> standing for hi * BASE + lo with 0 <= lo < BASE (floor        *)
(* representation, so a negative number has hi < 0).  The operators         *)
(* FloorDiv, Mod, Shr, Le below are Python's //, %, >> and <= on that pair. *)
(* The number-theory functions, which loop up to sqrt(n), are evaluated on  *)
(* the plain integer Val(n).                                                *)
(* A Python str is modelled as the sequence of its characters; an English   *)
(* word or a calendar name taken from a table is kept as one element.       *)
(***************************************************************************)
EXTENDS Integers, Sequences, FiniteSets, TLC

VARIABLES
    argv,     \* the command-line arguments after the program name
    number,   \* the argument of analyze_number / of the function under call
    pc,       \* position in main / analyze_number, or the function returned from
    results,  \* the results dict built so far (field name -> value)
    raised,   \* "none" or the name of the exception that left analyze_number
    tz        \* the host's local-time offset from UTC, in seconds

vars == <<argv, number, pc, results, raised, tz>>

(***************************************************************************)
(* Bounds of the model.                                                     *)
(***************************************************************************)
MaxN == 120         \* number-theory inputs range over -MaxN .. MaxN
MaxLow == 40        \* low part of the inputs taken around each boundary value

(***************************************************************************)
(* Python int arithmetic on <<hi, lo>>.                                     *)
(***************************************************************************)
BASE == 1000 * 1000

PyInt(v) == <<v \div BASE, v % BASE>>

Val(n) == n[1] * BASE + n[2]

Zero == PyInt(0)

IsNeg(n) == n[1] < 0

\* -n
Neg(n) == IF n[2] = 0 THEN <<0 - n[1], 0>> ELSE <<0 - n[1] - 1, BASE - n[2]>>

\* abs(n)
PyAbs(n) == IF IsNeg(n) THEN Neg(n) ELSE n

\* a <= b
Le(a, b) == a[1] < b[1] \/ (a[1] = b[1] /\ a[2] <= b[2])

\* n // d  for a small positive d (floor division, as in Python)
FloorDiv(n, d) == <<n[1] \div d, ((n[1] % d) * BASE + n[2]) \div d>>

\* n % d  for a small positive d (result in 0 .. d-1, as in Python)
Mod(n, d) == ((n[1] % d) * BASE + n[2]) % d

\* n * k + c  for a small non-negative k and a small c
MulAdd(n, k, c) == <<n[1] * k + (n[2] * k + c) \div BASE, (n[2] * k + c) % BASE>>

Pow2(k) == 2 ^ k

\* n >> k  (floor division by 2^k), k a multiple of 8
RECURSIVE Shr(_, _)
Shr(n, k) == IF k = 0 THEN n ELSE Shr(FloorDiv(n, Pow2(8)), k - 8)

\* n & 0xFF
And255(n) == Mod(n, Pow2(8))

(***************************************************************************)
(* Python str operations.                                                   *)
(***************************************************************************)
DigitChars == <<"0", "1", "2", "3", "4", "5", "6", "7", "8", "9",
                "a", "b", "c", "d", "e", "f">>

\* the digits of a non-negative n in the given base, most significant first
RECURSIVE ToBase(_, _)
ToBase(n, b) ==
    IF n = Zero THEN <<>>
    ELSE ToBase(FloorDiv(n, b), b) \o <<DigitChars[Mod(n, b) + 1]>>

\* the builtin formatting shared by hex(), bin(), oct() and str():
\* sign, radix prefix, digits of the absolute value
FormatInt(n, prefix, b) ==
    (IF IsNeg(n) THEN <<"-">> ELSE <<>>) \o prefix
        \o (IF n = Zero THEN <<"0">> ELSE ToBase(PyAbs(n), b))

hex(n) == FormatInt(n, <<"0", "x">>, 16)
bin(n) == FormatInt(n, <<"0", "b">>, 2)
oct(n) == FormatInt(n, <<"0", "o">>, 8)
str(n) == FormatInt(n, <<>>, 10)

UpperChar(c) ==
    CASE c = "a" -> "A" [] c = "b" -> "B" [] c = "c" -> "C" [] c = "d" -> "D"
      [] c = "e" -> "E" [] c = "f" -> "F" [] c = "x" -> "X" [] c = "o" -> "O"
      [] OTHER -> c

\* s.upper()
upper(s) == [i \in DOMAIN s |-> UpperChar(s[i])]

\* s[k:]
SliceFrom(s, k) == SubSeq(s, k + 1, Len(s))

\* s[i:j]
Slice(s, i, j) == SubSeq(s, i + 1, IF j < Len(s) THEN j ELSE Len(s))

Zeros(k) == [i \in 1 .. k |-> "0"]

\* s.zfill(width): pad with zeros on the left, after a leading sign if any
zfill(s, width) ==
    IF Len(s) >= width THEN s
    ELSE IF Len(s) > 0 /\ s[1] \in {"+", "-"}
         THEN <<s[1]>> \o Zeros(width - Len(s)) \o Tail(s)
         ELSE Zeros(width - Len(s)) \o s

\* the value of one digit character in the given base, or -1
DigitValue(c, b) ==
    LET up == {i \in 1 .. b : UpperChar(DigitChars[i]) = c \/ DigitChars[i] = c}
    IN  IF up = {} THEN 0 - 1 ELSE (CHOOSE i \in up : TRUE) - 1

IsNumeral(s, b) == Len(s) > 0 /\ \A i \in DOMAIN s : DigitValue(s[i], b) >= 0

RECURSIVE NumeralValue(_, _)
NumeralValue(s, b) ==
    IF s = <<>> THEN Zero
    ELSE MulAdd(NumeralValue(SubSeq(s, 1, Len(s) - 1), b), b, DigitValue(s[Len(s)], b))

\* int(s, b): an optional sign followed by digits of the base gives the value;
\* anything else raises ValueError.  (Blanks, underscores and a radix prefix
\* after the sign, which Python also accepts, occur in no text of the model.)
int(s, b) ==
    LET signed == Len(s) > 0 /\ s[1] \in {"+", "-"}
        body == IF signed THEN Tail(s) ELSE s
    IN  IF ~IsNumeral(body, b) THEN "ValueError"
        ELSE IF signed /\ s[1] = "-" THEN Neg(NumeralValue(body, b))
        ELSE NumeralValue(body, b)

(***************************************************************************)
(* Number theory (on plain integers).                                       *)
(***************************************************************************)
\* floor of the square root: int(math.sqrt(n)) and math.isqrt(n)
isqrt(n) == CHOOSE r \in 0 .. n : r * r <= n /\ (r + 1) * (r + 1) > n

\* factorize_inner with "if" for "while": a factor is divided out only once
factorize_inner_once(n, d, factors) ==
    IF n % d = 0 THEN <<n \div d, Append(factors, d)>> ELSE <<n, factors>>

\* the inner loop of factorize: while n % d == 0
RECURSIVE factorize_inner(_, _, _)
factorize_inner(n, d, factors) ==
    IF n % d = 0 THEN factorize_inner(n \div d, d, Append(factors, d))
    ELSE <<n, factors>>

\* the outer loop of factorize: while d * d <= n, and the final append
RECURSIVE factorize_outer(_, _, _)
factorize_outer(n, d, factors) ==
    IF d * d <= n
    THEN LET r == factorize_inner(n, d, factors)
         IN  factorize_outer(r[1], d + 1, r[2])
    ELSE IF n > 1 THEN Append(factors, n) ELSE factors

factorize(n) == IF n < 2 THEN <<n>> ELSE factorize_outer(n, 2, <<>>)

\* is_prime with range(2, int(math.sqrt(n))): the "+ 1" forgotten
is_prime_short_range(n) ==
    IF n < 2 THEN FALSE
    ELSE \A i \in 2 .. isqrt(n) - 1 : n % i # 0

is_prime(n) ==
    IF n < 2 THEN FALSE
    ELSE \A i \in 2 .. isqrt(n) : n % i # 0

\* the loop of find_previous_primes
RECURSIVE previous_primes_loop(_, _, _)
previous_primes_loop(primes, candidate, count) ==
    IF Len(primes) < count /\ candidate > 1
    THEN previous_primes_loop(
             IF is_prime(candidate) THEN Append(primes, candidate) ELSE primes,
             candidate - 1, count)
    ELSE primes

\* find_previous_primes starting the scan at n itself
find_previous_primes_from_n(n, count) == previous_primes_loop(<<>>, n, count)

find_previous_primes(n, count) == previous_primes_loop(<<>>, n - 1, count)

\* is_fibonacci testing 5n^2 + 4 only
is_fibonacci_plus_only(n) ==
    IF n < 0 THEN FALSE
    ELSE LET x == 5 * n * n
         IN  isqrt(x + 4) ^ 2 = x + 4

is_fibonacci(n) ==
    IF n < 0 THEN FALSE
    ELSE LET x == 5 * n * n
         IN  isqrt(x + 4) ^ 2 = x + 4 \/ isqrt(x - 4) ^ 2 = x - 4

(***************************************************************************)
(* number_to_english.                                                       *)
(***************************************************************************)
units == << <<>>, <<"one">>, <<"two">>, <<"three">>, <<"four">>, <<"five">>,
            <<"six">>, <<"seven">>, <<"eight">>, <<"nine">> >>

teens == << <<"ten">>, <<"eleven">>, <<"twelve">>, <<"thirteen">>, <<"fourteen">>,
            <<"fifteen">>, <<"sixteen">>, <<"seventeen">>, <<"eighteen">>,
            <<"nineteen">> >>

tens == << <<>>, <<>>, <<"twenty">>, <<"thirty">>, <<"forty">>, <<"fifty">>,
           <<"sixty">>, <<"seventy">>, <<"eighty">>, <<"ninety">> >>

thousands == << <<>>, <<"thousand">>, <<"million">>, <<"billion">> >>

\* the chunk base of the loop: n % 1000, n //= 1000
ChunkBase == 1000

RECURSIVE convert_hundreds(_)
convert_hundreds(num) ==
    IF num = 0 THEN <<>>
    ELSE IF num < 10 THEN units[num + 1]
    ELSE IF num < 20 THEN teens[num - 10 + 1]
    ELSE IF num < 100
         THEN tens[num \div 10 + 1]
                  \o (IF num % 10 # 0 THEN <<" ">> \o units[(num % 10) + 1] ELSE <<>>)
    ELSE units[num \div 100 + 1] \o <<" ", "hundred">>
             \o (IF num % 100 # 0 THEN <<" ">> \o convert_hundreds(num % 100) ELSE <<>>)

\* the loop with "if chunk != 0" forgotten: zero chunks are rendered too
RECURSIVE english_loop_keep_zero(_, _, _)
english_loop_keep_zero(n, parts, chunk_count) ==
    IF n # Zero /\ ~IsNeg(n)
    THEN LET chunk == Mod(n, ChunkBase)
             part == IF chunk_count > 0
                     THEN convert_hundreds(chunk) \o <<" ">> \o thousands[chunk_count + 1]
                     ELSE convert_hundreds(chunk)
         IN  english_loop_keep_zero(FloorDiv(n, ChunkBase), Append(parts, part),
                                    chunk_count + 1)
    ELSE parts

\* the while n > 0 loop of number_to_english; returns parts
RECURSIVE english_loop(_, _, _)
english_loop(n, parts, chunk_count) ==
    IF n # Zero /\ ~IsNeg(n)
    THEN LET chunk == Mod(n, ChunkBase)
             part == IF chunk_count > 0
                     THEN convert_hundreds(chunk) \o <<" ">> \o thousands[chunk_count + 1]
                     ELSE convert_hundreds(chunk)
         IN  english_loop(FloorDiv(n, ChunkBase),
                          IF chunk # 0 THEN Append(parts, part) ELSE parts,
                          chunk_count + 1)
    ELSE parts

\* reversed(s)
reversed(s) == [i \in DOMAIN s |-> s[Len(s) + 1 - i]]

\* sep.join(strs)
RECURSIVE join(_, _)
join(sep, strs) ==
    IF strs = <<>> THEN <<>>
    ELSE IF Len(strs) = 1 THEN strs[1]
    ELSE strs[1] \o sep \o join(sep, Tail(strs))

RECURSIVE number_to_english(_)
number_to_english(n) ==
    IF n = Zero THEN <<"zero">>
    ELSE IF IsNeg(n) THEN <<"negative", " ">> \o number_to_english(Neg(n))
    ELSE join(<<" ">>, reversed(english_loop(n, <<>>, 0)))

(***************************************************************************)
(* Magnitude reinterpretation: timestamp, IPv4, colour.                     *)
(***************************************************************************)
MaxTimestamp == 2000000000

InvalidTimestamp == <<"Invalid or out-of-range timestamp">>

InvalidIPv4 == <<"Invalid IPv4 address">>

\* 0xFFFFFFFF = 4294 * 10^6 + 967295
IPv4Max == <<4294, 967295>>

DayNames == <<"Sunday", "Monday", "Tuesday", "Wednesday", "Thursday", "Friday",
              "Saturday">>

MonthNames == <<"January", "February", "March", "April", "May", "June", "July",
                "August", "September", "October", "November", "December">>

SecondsPerDay == 24 * 60 * 60

\* datetime.fromtimestamp(t) with no tz argument: the broken-down LOCAL time
\* of the instant t, i.e. the proleptic Gregorian date of t shifted by the
\* host's offset from UTC (days-to-civil conversion of the C library)
fromtimestamp(t, offset) ==
    LET local == t + offset
        days == local \div SecondsPerDay
        secs == local % SecondsPerDay
        z == days + 719468
        era == z \div 146097
        doe == z % 146097
        yoe == (doe - doe \div 1460 + doe \div 36524 - doe \div 146096) \div 365
        doy == doe - (365 * yoe + yoe \div 4 - yoe \div 100)
        mp == (5 * doy + 2) \div 153
        m == IF mp < 10 THEN mp + 3 ELSE mp - 9
    IN  [year |-> yoe + era * 400 + (IF m <= 2 THEN 1 ELSE 0),
         month |-> m,
         day |-> doy - (153 * mp + 2) \div 5 + 1,
         hour |-> secs \div 3600,
         minute |-> (secs % 3600) \div 60,
         second |-> secs % 60,
         weekday |-> (days + 4) % 7]     \* 0 = Sunday; 1970-01-01 is a Thursday

\* %d, %H, %M, %S: two digits, zero padded
Pad2(v) == zfill(str(PyInt(v)), 2)

\* dt.strftime('%A, %d %B %Y at %H:%M:%S UTC')
strftime(dt) ==
    <<DayNames[dt.weekday + 1], ",", " ">> \o Pad2(dt.day) \o <<" ">>
        \o <<MonthNames[dt.month], " ">> \o str(PyInt(dt.year))
        \o <<" ", "at", " ">> \o Pad2(dt.hour) \o <<":">> \o Pad2(dt.minute)
        \o <<":">> \o Pad2(dt.second) \o <<" ", "UTC">>

unix_to_datetime(timestamp, offset) ==
    IF Le(Zero, timestamp) /\ Le(timestamp, PyInt(MaxTimestamp))
    THEN strftime(fromtimestamp(Val(timestamp), offset))
    ELSE InvalidTimestamp

\* number_to_ipv4 with the bytes in little-endian order
number_to_ipv4_little_endian(n) ==
    IF Le(Zero, n) /\ Le(n, IPv4Max)
    THEN str(PyInt(And255(n))) \o <<".">>
             \o str(PyInt(And255(Shr(n, 8)))) \o <<".">>
             \o str(PyInt(And255(Shr(n, 16)))) \o <<".">>
             \o str(PyInt(And255(Shr(n, 24))))
    ELSE InvalidIPv4

number_to_ipv4(n) ==
    IF Le(Zero, n) /\ Le(n, IPv4Max)
    THEN str(PyInt(And255(Shr(n, 24)))) \o <<".">>
             \o str(PyInt(And255(Shr(n, 16)))) \o <<".">>
             \o str(PyInt(And255(Shr(n, 8)))) \o <<".">>
             \o str(PyInt(And255(n)))
    ELSE InvalidIPv4

\* hex_to_rgb with the zfill(6) forgotten
hex_to_rgb_unpadded(hex_str) ==
    LET h == hex_str
        r == int(Slice(h, 0, 2), 16)
        g == int(Slice(h, 2, 4), 16)
        b == int(Slice(h, 4, 6), 16)
    IN  IF r = "ValueError" \/ g = "ValueError" \/ b = "ValueError"
        THEN <<0, 0, 0>>
        ELSE <<Val(r), Val(g), Val(b)>>

hex_to_rgb(hex_str) ==
    LET h == zfill(hex_str, 6)
        r == int(Slice(h, 0, 2), 16)
        g == int(Slice(h, 2, 4), 16)
        b == int(Slice(h, 4, 6), 16)
    IN  IF r = "ValueError" \/ g = "ValueError" \/ b = "ValueError"
        THEN <<0, 0, 0>>
        ELSE <<Val(r), Val(g), Val(b)>>

(***************************************************************************)
(* analyze_number, section by section.  A float is kept as the term that    *)
(* computes it; so are the digests and the arbitrary-precision powers.      *)
(***************************************************************************)
Float(op, x) == <<"float", op, x>>

Inf == <<"float", "inf">>

Digest(algorithm, text) == <<algorithm, text>>

crc32_hash(data) == Digest("crc-32", data)

\* lines 21-24
BaseFields(n) ==
    [decimal |-> n,
     hexadecimal |-> upper(SliceFrom(hex(n), 2)),
     binary |-> SliceFrom(bin(n), 2),
     octal |-> SliceFrom(oct(n), 2)]

\* lines 27-34
ArithHead(n) ==
    [english_words |-> number_to_english(n),
     parity |-> IF Mod(n, 2) # 0 THEN "Odd" ELSE "Even",
     factors |-> factorize(Val(n)),
     prime_status |-> IF is_prime(Val(n)) THEN "Prime" ELSE "Composite",
     divisible_by_8 |-> [i \in 1 .. 8 |-> MulAdd(n, i + 1, 0)],
     multiplied_by_2 |-> MulAdd(n, 2, 0),
     divided_by_2 |-> Float("/2", n),
     previous_primes |-> find_previous_primes(Val(n), 8)]

\* line 35 raises ValueError when int(d) does, for a character d of str(number)
DigitSumRaises(n) == \E i \in DOMAIN str(n) : int(<<str(n)[i]>>, 10) = "ValueError"

RECURSIVE SumDigits(_)
SumDigits(s) == IF s = <<>> THEN 0 ELSE Val(int(<<Head(s)>>, 10)) + SumDigits(Tail(s))

\* lines 35-41
ArithTail(n) ==
    [digit_sum |-> SumDigits(str(n)),
     digit_count |-> Len(str(n)),
     log10 |-> IF ~IsNeg(n) /\ n # Zero THEN Float("log10", n) ELSE Inf,
     natural_log |-> IF ~IsNeg(n) /\ n # Zero THEN Float("log", n) ELSE Inf,
     fibonacci |-> is_fibonacci(Val(n)),
     next_number |-> MulAdd(n, 1, 1),
     previous_number |-> MulAdd(n, 1, 0 - 1)]

\* line 46: math.sqrt raises ValueError (math domain error) below zero
SqrtRaises(n) == IsNeg(n)

\* lines 44-47
PowerFields(n) ==
    [square |-> <<"int", "**", n, 2>>,
     cube |-> <<"int", "**", n, 3>>,
     square_root |-> Float("sqrt", n),
     cube_root |-> IF IsNeg(n) THEN <<"complex", "**(1/3)", n>> ELSE Float("**(1/3)", n)]

\* lines 50-57
TrigFields(n) ==
    [sin_deg |-> Float("sin", Float("radians", n)),
     cos_deg |-> Float("cos", Float("radians", n)),
     tan_deg |-> Float("tan", Float("radians", n)),
     sin_rad |-> Float("sin", n),
     cos_rad |-> Float("cos", n),
     tan_rad |-> Float("tan", n),
     deg_to_rad |-> Float("radians", n),
     rad_to_deg |-> Float("degrees", n)]

\* lines 60-64
HashFields(n) ==
    [md5 |-> Digest("md5", str(n)),
     crc32 |-> crc32_hash(str(n)),
     sha256 |-> Digest("sha256", str(n)),
     sha1 |-> Digest("sha1", str(n)),
     base64 |-> Digest("base64", str(n))]

\* lines 67-68
ProgFields(hexadecimal) ==
    [c_hex |-> <<"0", "x">> \o hexadecimal,
     delphi_hex |-> <<"$">> \o hexadecimal]

\* line 77
color_hex(hexadecimal) == <<"#">> \o zfill(hexadecimal, 6)

\* lines 77-78
ColorFields(hexadecimal) ==
    [color_hex |-> color_hex(hexadecimal),
     rgb |-> hex_to_rgb(hexadecimal)]

(***************************************************************************)
(* main and analyze_number as a state machine.                              *)
(***************************************************************************)
\* the host's offset from UTC: UTC itself, and zones west and east of it
TzOffsets == {0 - 5 * 3600, 0, 3600, 5 * 3600 + 1800}

SmallInputs == {PyInt(v) : v \in (0 - MaxN) .. MaxN}

\* texts int() rejects
BadTexts == {<<"a", "b", "c">>, <<"1", "2", "x">>, <<"-">>, <<>>}

ArgTexts == {str(n) : n \in SmallInputs} \cup BadTexts

Init ==
    /\ argv \in {<<t>> : t \in ArgTexts} \cup {<<>>, <<str(PyInt(1)), str(PyInt(2))>>}
    /\ number = Zero
    /\ pc = "main"
    /\ results = <<>>
    /\ raised = "none"
    /\ tz \in TzOffsets

\* lines 345-348: wrong number of arguments
MainUsage ==
    /\ pc = "main"
    /\ Len(argv) # 1
    /\ pc' = "exit1"
    /\ UNCHANGED <<argv, number, results, raised, tz>>

\* line 351: number = int(sys.argv[1])
MainParse ==
    /\ pc = "main"
    /\ Len(argv) = 1
    /\ IF int(argv[1], 10) = "ValueError"
       THEN /\ raised' = "ValueError"
            /\ pc' = "except"
            /\ UNCHANGED number
       ELSE /\ number' = int(argv[1], 10)
            /\ pc' = "base"
            /\ UNCHANGED raised
    /\ UNCHANGED <<argv, results, tz>>

AnalyzeBase ==
    /\ pc = "base"
    /\ results' = BaseFields(number)
    /\ pc' = "arith"
    /\ UNCHANGED <<argv, number, raised, tz>>

AnalyzeArith ==
    /\ pc = "arith"
    /\ IF DigitSumRaises(number)
       THEN /\ results' = ArithHead(number) @@ results
            /\ raised' = "ValueError"
            /\ pc' = "except"
       ELSE /\ results' = ArithTail(number) @@ ArithHead(number) @@ results
            /\ pc' = "powers"
            /\ UNCHANGED raised
    /\ UNCHANGED <<argv, number, tz>>

\* lines 44-47.  A negative number never gets here: line 35 raised first, so
\* the math.sqrt domain error is not reachable from main.
AnalyzePowers ==
    /\ pc = "powers"
    /\ IF SqrtRaises(number)
       THEN /\ raised' = "ValueError"
            /\ pc' = "except"
            /\ UNCHANGED results
       ELSE /\ results' = PowerFields(number) @@ results
            /\ pc' = "trig"
            /\ UNCHANGED raised
    /\ UNCHANGED <<argv, number, tz>>

AnalyzeTrig ==
    /\ pc = "trig"
    /\ results' = TrigFields(number) @@ results
    /\ pc' = "hash"
    /\ UNCHANGED <<argv, number, raised, tz>>

AnalyzeHash ==
    /\ pc = "hash"
    /\ results' = HashFields(number) @@ results
    /\ pc' = "prog"
    /\ UNCHANGED <<argv, number, raised, tz>>

AnalyzeProg ==
    /\ pc = "prog"
    /\ results' = ProgFields(results.hexadecimal) @@ results
    /\ pc' = "date"
    /\ UNCHANGED <<argv, number, raised, tz>>

AnalyzeDate ==
    /\ pc = "date"
    /\ results' = [unix_time |-> unix_to_datetime(number, tz)] @@ results
    /\ pc' = "net"
    /\ UNCHANGED <<argv, number, raised, tz>>

AnalyzeNet ==
    /\ pc = "net"
    /\ results' = [ipv4 |-> number_to_ipv4(number)] @@ results
    /\ pc' = "color"
    /\ UNCHANGED <<argv, number, raised, tz>>

\* lines 77-80: the colour fields, then return results
AnalyzeColor ==
    /\ pc = "color"
    /\ results' = ColorFields(results.hexadecimal) @@ results
    /\ pc' = "display"
    /\ UNCHANGED <<argv, number, raised, tz>>

\* line 353: display_results(results)
MainDisplay ==
    /\ pc = "display"
    /\ pc' = "exit0"
    /\ UNCHANGED <<argv, number, results, raised, tz>>

\* lines 354-356: except ValueError: print the error, sys.exit(1); the
\* results dict of the aborted call is lost
MainExcept ==
    /\ pc = "except"
    /\ raised = "ValueError"
    /\ results' = <<>>
    /\ pc' = "exit1"
    /\ UNCHANGED <<argv, number, raised, tz>>

Next ==
    \/ MainUsage
    \/ MainParse
    \/ AnalyzeBase
    \/ AnalyzeArith
    \/ AnalyzePowers
    \/ AnalyzeTrig
    \/ AnalyzeHash
    \/ AnalyzeProg
    \/ AnalyzeDate
    \/ AnalyzeNet
    \/ AnalyzeColor
    \/ MainDisplay
    \/ MainExcept

Spec == Init /\ [][Next]_vars

(***************************************************************************)
(* The number-theory functions called on their own.                         *)
(***************************************************************************)
InitNumberTheory ==
    /\ argv = <<>>
    /\ number \in SmallInputs
    /\ pc = "call"
    /\ results = <<>>
    /\ raised = "none"
    /\ tz = 0

CallFactorize ==
    /\ pc = "call"
    /\ results' = [factorize |-> factorize(Val(number))]
    /\ pc' = "factorize"
    /\ UNCHANGED <<argv, number, raised, tz>>

CallIsPrime ==
    /\ pc = "call"
    /\ results' = [is_prime |-> is_prime(Val(number))]
    /\ pc' = "is_prime"
    /\ UNCHANGED <<argv, number, raised, tz>>

CallFindPreviousPrimes ==
    /\ pc = "call"
    /\ results' = [previous_primes |-> find_previous_primes(Val(number), 8)]
    /\ pc' = "find_previous_primes"
    /\ UNCHANGED <<argv, number, raised, tz>>

CallIsFibonacci ==
    /\ pc = "call"
    /\ results' = [fibonacci |-> is_fibonacci(Val(number))]
    /\ pc' = "is_fibonacci"
    /\ UNCHANGED <<argv, number, raised, tz>>

NextNumberTheory ==
    \/ CallFactorize
    \/ CallIsPrime
    \/ CallFindPreviousPrimes
    \/ CallIsFibonacci

SpecNumberTheory == InitNumberTheory /\ [][NextNumberTheory]_vars

(***************************************************************************)
(* number_to_english called on its own, on inputs below 1000^4.             *)
(***************************************************************************)
\* the number whose base-1000 chunks are c[1] (least significant) .. c[4]
FromChunks(c) == <<c[4] * ChunkBase + c[3], c[2] * ChunkBase + c[1]>>

\* the chunks put around the chunk that runs over its whole range
OtherChunks == {0, 990}

WordInputs ==
    LET Positions == 1 .. Len(thousands)
        pos == {FromChunks([q \in Positions |-> IF q = p THEN a ELSE o[q]]) :
                   p \in Positions, a \in 0 .. ChunkBase - 1,
                   o \in [Positions -> OtherChunks]}
    IN  pos \cup {Neg(n) : n \in pos}

InitWords ==
    /\ argv = <<>>
    /\ number \in WordInputs
    /\ pc = "call"
    /\ results = <<>>
    /\ raised = "none"
    /\ tz = 0

CallNumberToEnglish ==
    /\ pc = "call"
    /\ results' = [english_words |-> number_to_english(number)]
    /\ pc' = "number_to_english"
    /\ UNCHANGED <<argv, number, raised, tz>>

NextWords == CallNumberToEnglish

SpecWords == InitWords /\ [][NextWords]_vars

(***************************************************************************)
(* The magnitude reinterpretations called on their own, on inputs around    *)
(* the limits of their ranges.                                              *)
(***************************************************************************)
ByteSamples == {0, 1, 128, 255}

\* a * 2^24 + b * 2^16 + c * 2^8 + d
FromBytes(a, b, c, d) ==
    MulAdd(MulAdd(MulAdd(PyInt(a), Pow2(8), b), Pow2(8), c), Pow2(8), d)

\* 0, 2^24, the largest timestamp, 2^32
Limits == {Zero, FromBytes(1, 0, 0, 0), PyInt(MaxTimestamp), MulAdd(IPv4Max, 1, 1)}

\* instants on a leap day, at the end of a day and of a year
Instants == {PyInt(951782400), PyInt(86399), PyInt(1703980800 + 86399)}

MagnitudeInputs ==
    {MulAdd(l, 1, k) : l \in Limits, k \in (0 - MaxLow) .. MaxLow}
        \cup {FromBytes(a, b, c, d) : a \in ByteSamples, b \in ByteSamples,
                                      c \in ByteSamples, d \in ByteSamples}
        \cup Instants

InitMagnitude ==
    /\ argv = <<>>
    /\ number \in MagnitudeInputs
    /\ pc = "call"
    /\ results = <<>>
    /\ raised = "none"
    /\ tz \in TzOffsets

CallUnixToDatetime ==
    /\ pc = "call"
    /\ results' = [unix_time |-> unix_to_datetime(number, tz)]
    /\ pc' = "unix_to_datetime"
    /\ UNCHANGED <<argv, number, raised, tz>>

CallNumberToIpv4 ==
    /\ pc = "call"
    /\ results' = [ipv4 |-> number_to_ipv4(number)]
    /\ pc' = "number_to_ipv4"
    /\ UNCHANGED <<argv, number, raised, tz>>

\* lines 21-24 and 77-78: the base forms and the colour derived from them
CallColor ==
    /\ pc = "call"
    /\ results' = ColorFields(BaseFields(number).hexadecimal) @@ BaseFields(number)
    /\ pc' = "color"
    /\ UNCHANGED <<argv, number, raised, tz>>

NextMagnitude ==
    \/ CallUnixToDatetime
    \/ CallNumberToIpv4
    \/ CallColor

SpecMagnitude == InitMagnitude /\ [][NextMagnitude]_vars

(***************************************************************************)
(* Properties.  The reference notions they use are defined here from the    *)
(* mathematics, not from the code.                                          *)
(***************************************************************************)
IsPrimeNumber(p) == p >= 2 /\ \A d \in 2 .. p - 1 : p % d # 0

RECURSIVE Product(_)
Product(f) == IF f = <<>> THEN 1 ELSE Head(f) * Product(Tail(f))

\* C1: for n >= 2 factorize(n) is a non-empty, non-decreasing list of primes
\* whose product is n; for n < 2 it is the one-element list [n].
C1_FactorizeCorrect ==
    pc = "factorize" =>
        LET n == Val(number)
            f == results.factorize
        IN  IF n >= 2
            THEN /\ Len(f) > 0
                 /\ \A i \in DOMAIN f : IsPrimeNumber(f[i])
                 /\ \A i \in 1 .. Len(f) - 1 : f[i] <= f[i + 1]
                 /\ Product(f) = n
            ELSE f = <<n>>

C1_Witness ==
    pc = "factorize" /\ Val(number) = 60 /\ results.factorize = <<2, 2, 3, 5>>

\* C2: is_prime(n) is false below 2 and, from 2 on, true exactly when n has no
\* divisor d with 2 <= d < n; so for n >= 2 it is true iff factorize(n) = [n],
\* and it is false whenever factorize(n) has more than one element.
C2_IsPrimeCorrect ==
    pc = "is_prime" =>
        LET n == Val(number)
            p == results.is_prime
            f == factorize(n)
        IN  /\ n < 2 => ~p
            /\ n >= 2 => (p <=> \A d \in 2 .. n - 1 : n % d # 0)
            /\ n >= 2 => (p <=> f = <<n>>)
            /\ Len(f) > 1 => ~p

C2_Witness == pc = "is_prime" /\ Val(number) = 49 /\ results.is_prime = FALSE

\* C3: find_previous_primes(n, 8) returns, for every n, the min(8, number of
\* primes below n) largest primes below n, in strictly decreasing order, none
\* skipped; the empty list when no prime is below n.
C3_PreviousPrimesCorrect ==
    pc = "find_previous_primes" =>
        LET n == Val(number)
            r == results.previous_primes
            below == {p \in 2 .. n - 1 : IsPrimeNumber(p)}
        IN  /\ Len(r) = IF Cardinality(below) < 8 THEN Cardinality(below) ELSE 8
            /\ \A i \in DOMAIN r : r[i] \in below
            /\ \A i \in 1 .. Len(r) - 1 : r[i] > r[i + 1]
            /\ \A p \in below :
                   (Len(r) > 0 /\ p > r[Len(r)]) => \E i \in DOMAIN r : r[i] = p
            /\ below = {} => r = <<>>

C3_Witness ==
    /\ pc = "find_previous_primes"
    /\ Val(number) = 30
    /\ results.previous_primes = <<29, 23, 19, 17, 13, 11, 7, 5>>

\* the Fibonacci numbers a, b, a + b, ... not above limit
RECURSIVE FibonacciUpTo(_, _, _)
FibonacciUpTo(a, b, limit) ==
    IF a > limit THEN {} ELSE {a} \cup FibonacciUpTo(b, a + b, limit)

\* C6: is_fibonacci(n) returns for every n; it is false below 0 and, from 0 on,
\* true exactly for the members of 0, 1, 1, 2, 3, 5, 8, ... (true for 0 and 1,
\* false for 4, 6, 7, 9, 10).
C6_IsFibonacciCorrect ==
    pc = "is_fibonacci" =>
        LET n == Val(number)
            r == results.fibonacci
        IN  /\ n < 0 => ~r
            /\ n >= 0 => (r <=> n \in FibonacciUpTo(0, 1, n))
            /\ n \in {0, 1} => r
            /\ n \in {4, 6, 7, 9, 10} => ~r

C6_Witness == pc = "is_fibonacci" /\ Val(number) = 89 /\ results.fibonacci = TRUE

UnitWords == <<"one", "two", "three", "four", "five", "six", "seven", "eight", "nine">>

TeenWords == <<"ten", "eleven", "twelve", "thirteen", "fourteen", "fifteen",
               "sixteen", "seventeen", "eighteen", "nineteen">>

TensWords == <<"twenty", "thirty", "forty", "fifty", "sixty", "seventy", "eighty",
               "ninety">>

ScaleWords == <<"thousand", "million", "billion">>

\* the words of one chunk 1 .. 999: hundreds, then tens and units
ChunkWords(c) ==
    LET h == c \div 100
        r == c % 100
    IN  (IF h > 0 THEN <<UnitWords[h], "hundred">> ELSE <<>>)
            \o (IF r >= 10 /\ r < 20 THEN <<TeenWords[r - 9]>>
                ELSE (IF r >= 20 THEN <<TensWords[(r \div 10) - 1]>> ELSE <<>>)
                         \o (IF r % 10 > 0 THEN <<UnitWords[r % 10]>> ELSE <<>>))

\* the p-th base-1000 chunk (1 = least significant) of n, 0 <= n < 1000^4
ChunkOf(n, p) ==
    CASE p = 1 -> n[2] % 1000
      [] p = 2 -> n[2] \div 1000
      [] p = 3 -> n[1] % 1000
      [] p = 4 -> n[1] \div 1000

\* the words of chunks p, p - 1, ..., 1 of n, zero chunks left out
RECURSIVE PhraseWords(_, _)
PhraseWords(n, p) ==
    IF p = 0 THEN <<>>
    ELSE (IF ChunkOf(n, p) = 0 THEN <<>>
          ELSE ChunkWords(ChunkOf(n, p))
                   \o (IF p > 1 THEN <<ScaleWords[p - 1]>> ELSE <<>>))
             \o PhraseWords(n, p - 1)

\* words separated by exactly one space, none before or after
Spaced(words) ==
    [i \in 1 .. 2 * Len(words) - 1 |-> IF i % 2 = 1 THEN words[(i + 1) \div 2] ELSE " "]

\* C7: for |n| < 10^12 number_to_english(n) is "zero" for 0, "negative "
\* followed by the phrase of |n| below 0, and otherwise the non-zero base-1000
\* chunks, most significant first, each as its hundreds/tens/units words and
\* its scale word, single spaces between the words and none around them.
C7_EnglishCorrect ==
    pc = "number_to_english" =>
        LET r == results.english_words
            phrase == Spaced(PhraseWords(PyAbs(number), 4))
        IN  /\ number = Zero => r = <<"zero">>
            /\ IsNeg(number) => r = <<"negative", " ">> \o phrase
            /\ (number # Zero /\ ~IsNeg(number)) => r = phrase
            /\ number = PyInt(123) =>
                   r = <<"one", " ", "hundred", " ", "twenty", " ", "three">>
            /\ number = PyInt(1000000) => r = <<"one", " ", "million">>

C7_Witness ==
    /\ pc = "number_to_english"
    /\ number = Neg(FromChunks(<<115, 990, 0, 990>>))
    /\ results.english_words =
           <<"negative", " ", "nine", " ", "hundred", " ", "ninety", " ", "billion",
             " ", "nine", " ", "hundred", " ", "ninety", " ", "thousand", " ",
             "one", " ", "hundred", " ", "fifteen">>

\* the pieces of s between the occurrences of sep
RECURSIVE SplitAt(_, _, _)
SplitAt(s, sep, piece) ==
    IF s = <<>> THEN <<piece>>
    ELSE IF Head(s) = sep THEN <<piece>> \o SplitAt(Tail(s), sep, <<>>)
    ELSE SplitAt(Tail(s), sep, Append(piece, Head(s)))

\* 2^32, as 2^16 * 2^8 * 2^8
TwoTo32 == MulAdd(MulAdd(PyInt(2 ^ 16), 2 ^ 8, 0), 2 ^ 8, 0)

\* C8: number_to_ipv4(n) is the invalid marker exactly when n < 0 or
\* n > 4294967295; otherwise it is a.b.c.d with four decimal bytes such that
\* a * 2^24 + b * 2^16 + c * 2^8 + d = n.
C8_IPv4Correct ==
    pc = "number_to_ipv4" =>
        LET r == results.ipv4
            parts == SplitAt(r, ".", <<>>)
            byte(i) == Val(NumeralValue(parts[i], 10))
        IN  IF IsNeg(number) \/ Le(TwoTo32, number)
            THEN r = InvalidIPv4
            ELSE /\ r # InvalidIPv4
                 /\ Len(parts) = 4
                 /\ \A i \in 1 .. 4 :
                        /\ IsNumeral(parts[i], 10)
                        /\ \A j \in DOMAIN parts[i] : parts[i][j] \in {DigitChars[k] : k \in 1 .. 10}
                        /\ byte(i) \in 0 .. 255
                 /\ FromBytes(byte(1), byte(2), byte(3), byte(4)) = number

C8_Witness ==
    /\ pc = "number_to_ipv4"
    /\ number = MulAdd(TwoTo32, 1, 0 - 1)
    /\ results.ipv4 = <<"2", "5", "5", ".", "2", "5", "5", ".", "2", "5", "5", ".",
                        "2", "5", "5">>

UpperHexDigits == {"0", "1", "2", "3", "4", "5", "6", "7", "8", "9",
                   "A", "B", "C", "D", "E", "F"}

\* C10: for n >= 0 the colour code (the text after the leading "#" of the
\* color_hex field) is the uppercase hexadecimal text of n, zero-padded on the
\* left to at least 6 digits and never truncated, and rgb is the first three
\* 2-digit pairs of it; for n <= 0xFFFFFF it has exactly 6 digits and
\* 65536 r + 256 g + b = n (255 gives 0000FF and (0, 0, 255)).
C10_ColorCorrect ==
    (pc = "color" /\ ~IsNeg(number)) =>
        LET code == Tail(results.color_hex)
            rgb == results.rgb
            pair(i) == Val(NumeralValue(SubSeq(code, 2 * i - 1, 2 * i), 16))
        IN  /\ Head(results.color_hex) = "#"
            /\ \A i \in DOMAIN code : code[i] \in UpperHexDigits
            /\ Len(code) >= 6
            /\ NumeralValue(code, 16) = number
            /\ Len(code) > 6 => code[1] # "0"
            /\ rgb = <<pair(1), pair(2), pair(3)>>
            /\ Le(number, FromBytes(0, 255, 255, 255)) =>
                   /\ Len(code) = 6
                   /\ FromBytes(0, rgb[1], rgb[2], rgb[3]) = number
            /\ number = PyInt(255) =>
                   /\ code = <<"0", "0", "0", "0", "F", "F">>
                   /\ rgb = <<0, 0, 255>>

C10_Witness ==
    /\ pc = "color"
    /\ number = FromBytes(0, 1, 128, 255)
    /\ results.color_hex = <<"#", "0", "1", "8", "0", "F", "F">>
    /\ results.rgb = <<1, 128, 255>>

\* positions of analyze_number after the base forms were stored
AfterBase == {"arith", "powers", "trig", "hash", "prog", "date", "net", "color",
              "display", "exit0"}

\* C4: for every well-formed integer input (negative, zero or positive)
\* analyze_number completes with a full record, an out-of-domain field
\* degrading alone; only non-numeric text aborts the analysis.
C4_OnlyBadTextAborts ==
    raised = "ValueError" => (Len(argv) = 1 /\ int(argv[1], 10) = "ValueError")

\* C5: for every integer n the hexadecimal, binary and octal texts carry no
\* radix prefix and parse back, in radix 16, 2 and 8, to n.
C5_BaseFormsRoundTrip ==
    pc \in AfterBase =>
        /\ \A i \in DOMAIN results.hexadecimal : results.hexadecimal[i] \notin {"x", "X"}
        /\ \A i \in DOMAIN results.binary : results.binary[i] \notin {"b", "B"}
        /\ \A i \in DOMAIN results.octal : results.octal[i] \notin {"o", "O"}
        /\ int(results.hexadecimal, 16) = number
        /\ int(results.binary, 2) = number
        /\ int(results.octal, 8) = number

\* C9: unix_to_datetime(n) is the invalid marker outside [0, 2000000000] and,
\* inside, the calendar string of the instant n in UTC, whatever the host's
\* time zone.
C9_TimestampIsUTC ==
    pc = "unix_to_datetime" =>
        results.unix_time =
            IF ~IsNeg(number) /\ Le(number, PyInt(2000000000))
            THEN strftime(fromtimestamp(Val(number), 0))
            ELSE InvalidTimestamp

====
